---- MODULE Spec2Model ----
(***************************************************************************)
(* Model of src/main.py: the PomodoroTimer controller.                     *)
(*                                                                         *)
(* The state is the controller object (settings, current_session,          *)
(* session_count, time_remaining, is_running, is_paused, timer_job, the    *)
(* Pause button's state), the settings dialog, and the environment the     *)
(* handlers act on: Tk's queue of pending after() callbacks, the threads   *)
(* started by play_notification_sound, the timers that stop the music,     *)
(* and the text of the settings file.                                      *)
(* Every handler of the class is an operator from controller states to     *)
(* controller states, composed exactly as the methods call each other;     *)
(* every action of Next is one event of the Tk main loop.  Spec runs the   *)
(* timer on valid stored settings; SpecStore runs the settings and their   *)
(* file from any stored file over several starts of the program.           *)
(***************************************************************************)
EXTENDS Integers, Sequences, FiniteSets, TLC

VARIABLES
    settings,         \* self.settings
    config_file,      \* content of pomodoro_config.json
    current_session,  \* self.current_session
    session_count,    \* self.session_count
    time_remaining,   \* self.time_remaining
    is_running,       \* self.is_running
    is_paused,        \* self.is_paused
    timer_job,        \* self.timer_job: None, or the fate of the id it holds
    after_queue,      \* number of countdown callbacks pending in Tk
    pause_btn,        \* state of self.pause_btn
    settings_window,  \* TRUE while the modal settings dialog is open
    sound_threads,    \* play_sound threads started and not yet run
    stop_timers       \* threading.Timer(5.0, music.stop) not yet fired

vars == << settings, config_file, current_session, session_count,
           time_remaining, is_running, is_paused, timer_job, after_queue,
           pause_btn, settings_window, sound_threads, stop_timers >>

----------------------------------------------------------------------------
(* Bounds of the model *)

\* session_count is unbounded in the program; a Work session is not
\* completed once the count has reached MaxSessions.
MaxSessions == 2

\* Notifications in flight at once: play_sound threads not yet run and
\* stop timers not yet fired.
MaxThreads == 1

\* Largest sessions_until_long_break stored or typed.
MaxUntilLongBreak == 2

\* Minutes stored or typed for the work and short-break durations, and
\* for the long-break duration: every two of the three durations differ
\* in some settings record.
MinuteChoices == {1, 2}

LongMinuteChoices == {2}

CountChoices == 1..MaxUntilLongBreak

\* Sound paths: "" is the default beep, the other is what
\* browse_sound_file stores.
NoSound == ""

BrowsedSound == "assets/notification.wav"

\* What handle_first_run stores when a sound is picked at start-up.
FirstRunSound == "assets/user_notify.wav"

\* Values found in a stored file for work_duration and for
\* sessions_until_long_break when the file was written by hand.
StoredMinuteChoices == {-1, 0, 1}

StoredCountChoices == {0, 2}

----------------------------------------------------------------------------
(* Program constants *)

\* time_remaining = minutes * 60
SecondsPerMinute == 60

Sessions == {"work", "short_break", "long_break"}

SettingsDomain ==
    [ work_duration : MinuteChoices,
      short_break : MinuteChoices,
      long_break : LongMinuteChoices,
      sessions_until_long_break : CountChoices,
      notification_sound : {NoSound} ]

----------------------------------------------------------------------------
(* The controller object and the environment as one record *)

Self ==
    [ settings |-> settings, config_file |-> config_file,
      current_session |-> current_session, session_count |-> session_count,
      time_remaining |-> time_remaining, is_running |-> is_running,
      is_paused |-> is_paused, timer_job |-> timer_job,
      after_queue |-> after_queue, pause_btn |-> pause_btn,
      settings_window |-> settings_window, sound_threads |-> sound_threads,
      stop_timers |-> stop_timers ]

Becomes(s) ==
    /\ settings' = s.settings
    /\ config_file' = s.config_file
    /\ current_session' = s.current_session
    /\ session_count' = s.session_count
    /\ time_remaining' = s.time_remaining
    /\ is_running' = s.is_running
    /\ is_paused' = s.is_paused
    /\ timer_job' = s.timer_job
    /\ after_queue' = s.after_queue
    /\ pause_btn' = s.pause_btn
    /\ settings_window' = s.settings_window
    /\ sound_threads' = s.sound_threads
    /\ stop_timers' = s.stop_timers

----------------------------------------------------------------------------
(* Text: str and int of Python, on sequences of characters *)

Digits == << "0", "1", "2", "3", "4", "5", "6", "7", "8", "9" >>

DigitValue(ch) == (CHOOSE i \in 1..10 : Digits[i] = ch) - 1

IsDigit(ch) == \E i \in 1..10 : Digits[i] = ch

RECURSIVE str(_)
\* str(n) as a sequence of characters
str(n) ==
    IF n < 0 THEN << "-" >> \o str(0 - n)
    ELSE IF n < 10 THEN << Digits[n + 1] >>
    ELSE Append(str(n \div 10), Digits[(n % 10) + 1])

RECURSIVE strip(_)
strip(text) ==
    IF text # << >> /\ Head(text) = " " THEN strip(Tail(text))
    ELSE IF text # << >> /\ text[Len(text)] = " "
    THEN strip(SubSeq(text, 1, Len(text) - 1))
    ELSE text

RECURSIVE digits_value(_)
digits_value(ds) ==
    IF ds = << >> THEN 0
    ELSE 10 * digits_value(SubSeq(ds, 1, Len(ds) - 1))
         + DigitValue(ds[Len(ds)])

\* int(text): surrounding blanks are dropped, then an optional sign and at
\* least one decimal digit; anything else raises ValueError.
int(text) ==
    LET body == strip(text)
        signed == body # << >> /\ Head(body) \in {"-", "+"}
        ds == IF signed THEN Tail(body) ELSE body
    IN  IF ds # << >> /\ \A i \in 1..Len(ds) : IsDigit(ds[i])
        THEN [ ok |-> TRUE,
               value |-> IF signed /\ Head(body) = "-"
                         THEN 0 - digits_value(ds)
                         ELSE digits_value(ds) ]
        ELSE [ ok |-> FALSE, value |-> 0 ]

----------------------------------------------------------------------------
(* SettingsStore: load_settings and save_settings *)

SettingsKeys ==
    { "work_duration", "short_break", "long_break",
      "sessions_until_long_break", "notification_sound" }

default_settings ==
    [ work_duration |-> 25,
      short_break |-> 5,
      long_break |-> 15,
      sessions_until_long_break |-> 4,
      notification_sound |-> NoSound ]

\* The order in which the dict literals of the program list the keys
KeyOrder ==
    << "work_duration", "short_break", "long_break",
       "sessions_until_long_break", "notification_sound" >>

Quote == "\""

\* json.dump of one value: an int as its decimal digits, the sound path
\* (the one string value) between quotes.
json_dump_value(key, value) ==
    IF key = "notification_sound"
    THEN << Quote >> \o (IF value = "" THEN << >> ELSE << value >>)
                     \o << Quote >>
    ELSE str(value)

RECURSIVE json_dump_members(_, _)
json_dump_members(object, keys) ==
    IF keys = << >> THEN << >>
    ELSE (IF Head(keys) \in DOMAIN object
          THEN << [ key |-> Head(keys),
                    value |-> json_dump_value(Head(keys),
                                              object[Head(keys)]) ] >>
          ELSE << >>)
         \o json_dump_members(object, Tail(keys))

\* Variant: the writer leaves the sound path out of the document.
json_dump_numbers_only(object) ==
    json_dump_members(object,
                      SelectSeq(KeyOrder,
                                LAMBDA k : k # "notification_sound"))

\* json.dump(object): the text of a JSON document, as the sequence of
\* its members, each a key and the characters of its value.
json_dump(object) == json_dump_members(object, KeyOrder)

json_is_string(token) ==
    Len(token) >= 2 /\ Head(token) = Quote /\ token[Len(token)] = Quote

\* A JSON integer: an optional minus sign, then digits without a
\* leading zero.
json_is_number(token) ==
    LET ds == IF token # << >> /\ Head(token) = "-" THEN Tail(token)
              ELSE token
    IN  /\ ds # << >>
        /\ \A i \in 1..Len(ds) : IsDigit(ds[i])
        /\ Len(ds) > 1 => Head(ds) # "0"

json_load_value(token) ==
    IF json_is_string(token)
    THEN (IF Len(token) = 2 THEN "" ELSE token[2])
    ELSE IF Head(token) = "-" THEN 0 - digits_value(Tail(token))
    ELSE digits_value(token)

\* json.load(text): the dict of the document, where the last member of
\* a key wins; ok is FALSE where json.load raises.
json_load(text) ==
    IF \A i \in 1..Len(text) :
           json_is_string(text[i].value) \/ json_is_number(text[i].value)
    THEN [ ok |-> TRUE,
           object |->
               [ k \in { text[i].key : i \in 1..Len(text) } |->
                   json_load_value(
                       text[CHOOSE i \in 1..Len(text) :
                                /\ text[i].key = k
                                /\ \A j \in (i + 1)..Len(text) :
                                       text[j].key # k].value) ] ]
    ELSE [ ok |-> FALSE, object |-> << >> ]

\* pomodoro_config.json: absent, or present with its text; a present
\* file may refuse to be opened for reading.
MissingFile == [ exists |-> FALSE, readable |-> FALSE, text |-> << >> ]

TextFile(text) == [ exists |-> TRUE, readable |-> TRUE, text |-> text ]

UnreadableFile == [ exists |-> TRUE, readable |-> FALSE, text |-> << >> ]

\* A file cut off after the colon of its first member
MalformedFile ==
    TextFile(<< [ key |-> "work_duration", value |-> << >> ] >>)

JsonFile(object) == TextFile(json_dump(object))

\* json.dump(settings) into the file; an exception while opening it for
\* writing is swallowed and leaves the file as it was.
save_settings(file, st, written) ==
    IF written THEN JsonFile(st) ELSE file

\* Variant: a stored record with a gap is dropped for the defaults.
load_settings_all_or_nothing(file, written) ==
    IF ~file.exists
    THEN [ settings |-> default_settings,
           file |-> save_settings(file, default_settings, written) ]
    ELSE IF ~file.readable \/ ~json_load(file.text).ok
    THEN [ settings |-> default_settings, file |-> file ]
    ELSE [ settings |->
               IF SettingsKeys \subseteq DOMAIN json_load(file.text).object
               THEN json_load(file.text).object
               ELSE default_settings,
           file |-> file ]

\* Returns the settings and the file as load_settings leaves it.
load_settings(file, written) ==
    IF ~file.exists
    THEN [ settings |-> default_settings,
           file |-> save_settings(file, default_settings, written) ]
    ELSE IF ~file.readable \/ ~json_load(file.text).ok
    THEN [ settings |-> default_settings, file |-> file ]
    ELSE LET loaded_settings == json_load(file.text).object IN
         [ settings |->
               [ k \in SettingsKeys \cup DOMAIN loaded_settings |->
                   IF k \in DOMAIN loaded_settings
                   THEN loaded_settings[k]
                   ELSE default_settings[k] ],
           file |-> file ]

----------------------------------------------------------------------------
(* Tk's after() queue, as the controller uses it *)

\* self.timer_job = self.root.after(1000, self.countdown): one more
\* callback is pending and timer_job holds its id; a callback whose id
\* timer_job held before stays in the queue.
root_after(s) ==
    [ s EXCEPT !.timer_job = "pending", !.after_queue = @ + 1 ]

\* if self.timer_job: self.root.after_cancel(self.timer_job).
\* Cancelling the id of a callback that has fired or was cancelled does
\* nothing.
root_after_cancel(s) ==
    IF s.timer_job = "pending"
    THEN [ s EXCEPT !.timer_job = "cancelled", !.after_queue = @ - 1 ]
    ELSE s

----------------------------------------------------------------------------
(* SessionCycle and TimerDriver: the methods of PomodoroTimer *)

play_notification_sound(s) ==
    [ s EXCEPT !.sound_threads = @ + 1 ]

\* play_sound, the body of the thread: with a sound set and its file
\* there (playable), the music plays and a timer is started to stop it
\* after 5 seconds; otherwise, or on any exception, the bell rings.
play_sound(s, playable) ==
    IF s.settings.notification_sound # "" /\ playable
    THEN [ s EXCEPT !.sound_threads = @ - 1, !.stop_timers = @ + 1 ]
    ELSE [ s EXCEPT !.sound_threads = @ - 1 ]

\* pygame.mixer.music.stop, called by the timer
music_stop(s) == [ s EXCEPT !.stop_timers = @ - 1 ]

\* Variant: the long-break test reads the count before the increment.
next_session_stale_count(s) ==
    IF s.current_session = "work"
    THEN LET c == s.session_count + 1 IN
         IF s.session_count % s.settings.sessions_until_long_break = 0
         THEN [ s EXCEPT !.session_count = c,
                         !.current_session = "long_break",
                         !.time_remaining =
                             s.settings.long_break * SecondsPerMinute ]
         ELSE [ s EXCEPT !.session_count = c,
                         !.current_session = "short_break",
                         !.time_remaining =
                             s.settings.short_break * SecondsPerMinute ]
    ELSE [ s EXCEPT !.current_session = "work",
                    !.time_remaining =
                        s.settings.work_duration * SecondsPerMinute ]

\* Variant: the end of a break is counted as a completed session too.
next_session_counts_breaks(s) ==
    IF s.current_session = "work"
    THEN LET c == s.session_count + 1 IN
         IF c % s.settings.sessions_until_long_break = 0
         THEN [ s EXCEPT !.session_count = c,
                         !.current_session = "long_break",
                         !.time_remaining =
                             s.settings.long_break * SecondsPerMinute ]
         ELSE [ s EXCEPT !.session_count = c,
                         !.current_session = "short_break",
                         !.time_remaining =
                             s.settings.short_break * SecondsPerMinute ]
    ELSE [ s EXCEPT !.session_count = @ + 1,
                    !.current_session = "work",
                    !.time_remaining =
                        s.settings.work_duration * SecondsPerMinute ]

next_session(s) ==
    IF s.current_session = "work"
    THEN LET c == s.session_count + 1 IN
         IF c % s.settings.sessions_until_long_break = 0
         THEN [ s EXCEPT !.session_count = c,
                         !.current_session = "long_break",
                         !.time_remaining =
                             s.settings.long_break * SecondsPerMinute ]
         ELSE [ s EXCEPT !.session_count = c,
                         !.current_session = "short_break",
                         !.time_remaining =
                             s.settings.short_break * SecondsPerMinute ]
    ELSE [ s EXCEPT !.current_session = "work",
                    !.time_remaining =
                        s.settings.work_duration * SecondsPerMinute ]

\* Variant: the next session is started as soon as it is set up.
session_complete_autostart(s) ==
    root_after(
        next_session(
            play_notification_sound(
                [ s EXCEPT !.is_running = TRUE, !.pause_btn = "normal" ])))

session_complete(s) ==
    next_session(
        play_notification_sound(
            [ s EXCEPT !.is_running = FALSE, !.pause_btn = "disabled" ]))

\* Variant: a tick with time left does not schedule the next one.
countdown_no_rearm(s) ==
    IF s.is_running /\ s.time_remaining > 0
    THEN [ s EXCEPT !.time_remaining = @ - 1 ]
    ELSE IF s.time_remaining = 0
    THEN session_complete(s)
    ELSE s

\* Variant: the decrement is guarded by >= 0 instead of > 0.
countdown_no_floor(s) ==
    IF s.is_running /\ s.time_remaining >= 0
    THEN root_after([ s EXCEPT !.time_remaining = @ - 1 ])
    ELSE IF s.time_remaining = 0
    THEN session_complete(s)
    ELSE s

countdown(s) ==
    IF s.is_running /\ s.time_remaining > 0
    THEN root_after([ s EXCEPT !.time_remaining = @ - 1 ])
    ELSE IF s.time_remaining = 0
    THEN session_complete(s)
    ELSE s

start_timer(s) ==
    countdown([ s EXCEPT !.is_running = TRUE, !.is_paused = FALSE,
                         !.pause_btn = "normal" ])

\* Variant: the pending callback is not cancelled.
pause_timer_no_cancel(s) ==
    [ s EXCEPT !.is_running = FALSE, !.is_paused = TRUE,
               !.pause_btn = "disabled" ]

\* Variant: the button flips is_paused instead of setting it.
pause_timer_toggles(s) ==
    root_after_cancel([ s EXCEPT !.is_running = FALSE,
                                 !.is_paused = ~s.is_paused,
                                 !.pause_btn = "disabled" ])

pause_timer(s) ==
    root_after_cancel([ s EXCEPT !.is_running = FALSE, !.is_paused = TRUE,
                                 !.pause_btn = "disabled" ])

\* Variant: resuming leaves the paused flag set.
resume_timer_keeps_paused(s) ==
    countdown([ s EXCEPT !.is_running = TRUE, !.pause_btn = "normal" ])

resume_timer(s) ==
    countdown([ s EXCEPT !.is_running = TRUE, !.is_paused = FALSE,
                         !.pause_btn = "normal" ])

\* Variant: every session is reset to the work duration.
reset_timer_work_only(s) ==
    LET c == root_after_cancel(
                 [ s EXCEPT !.is_running = FALSE, !.is_paused = FALSE,
                            !.pause_btn = "disabled" ])
    IN  [ c EXCEPT !.time_remaining =
                       c.settings.work_duration * SecondsPerMinute ]

\* Variant: Reset goes back to the first Work session of the cycle.
reset_timer_restarts_cycle(s) ==
    LET c == root_after_cancel(
                 [ s EXCEPT !.is_running = FALSE, !.is_paused = FALSE,
                            !.pause_btn = "disabled" ])
    IN  [ c EXCEPT !.current_session = "work",
                   !.session_count = 0,
                   !.time_remaining =
                       c.settings.work_duration * SecondsPerMinute ]

\* Variant: Reset also silences the notifications in flight.
reset_timer_silences(s) ==
    LET c == root_after_cancel(
                 [ s EXCEPT !.is_running = FALSE, !.is_paused = FALSE,
                            !.pause_btn = "disabled",
                            !.sound_threads = 0, !.stop_timers = 0 ])
    IN  [ c EXCEPT !.time_remaining =
                       IF c.current_session = "work"
                       THEN c.settings.work_duration * SecondsPerMinute
                       ELSE IF c.current_session = "short_break"
                       THEN c.settings.short_break * SecondsPerMinute
                       ELSE c.settings.long_break * SecondsPerMinute ]

reset_timer(s) ==
    LET c == root_after_cancel(
                 [ s EXCEPT !.is_running = FALSE, !.is_paused = FALSE,
                            !.pause_btn = "disabled" ])
    IN  IF c.current_session = "work"
        THEN [ c EXCEPT !.time_remaining =
                            c.settings.work_duration * SecondsPerMinute ]
        ELSE IF c.current_session = "short_break"
        THEN [ c EXCEPT !.time_remaining =
                            c.settings.short_break * SecondsPerMinute ]
        ELSE [ c EXCEPT !.time_remaining =
                            c.settings.long_break * SecondsPerMinute ]

toggle_timer(s) ==
    IF ~s.is_running /\ ~s.is_paused
    THEN start_timer(s)
    ELSE IF s.is_paused
    THEN resume_timer(s)
    ELSE s

----------------------------------------------------------------------------
(* The settings dialog: the text of its four entries and its Save button *)

\* Variant: an accepted Save resets the timer only when it is Idle.
open_settings_save_settings_idle_only(s, form, written) ==
    LET work == int(form.work)
        short == int(form.short)
        long == int(form.long)
        sessions == int(form.sessions)
    IN  IF ~(work.ok /\ short.ok /\ long.ok /\ sessions.ok)
        THEN s
        ELSE IF \/ work.value <= 0
                \/ short.value <= 0
                \/ long.value <= 0
                \/ sessions.value <= 0
        THEN s
        ELSE LET new_settings ==
                     [ work_duration |-> work.value,
                       short_break |-> short.value,
                       long_break |-> long.value,
                       sessions_until_long_break |-> sessions.value,
                       notification_sound |-> s.settings.notification_sound ]
                 saved ==
                     [ s EXCEPT !.settings = new_settings,
                                !.config_file =
                                    save_settings(s.config_file, new_settings,
                                                  written) ]
                 reset == IF ~saved.is_running /\ ~saved.is_paused
                          THEN reset_timer(saved)
                          ELSE saved
             IN  [ reset EXCEPT !.settings_window = FALSE ]

\* Variant: an accepted Save resets the timer whether it runs or not.
open_settings_save_settings_resets(s, form, written) ==
    LET work == int(form.work)
        short == int(form.short)
        long == int(form.long)
        sessions == int(form.sessions)
    IN  IF ~(work.ok /\ short.ok /\ long.ok /\ sessions.ok)
        THEN s
        ELSE IF \/ work.value <= 0
                \/ short.value <= 0
                \/ long.value <= 0
                \/ sessions.value <= 0
        THEN s
        ELSE LET new_settings ==
                     [ work_duration |-> work.value,
                       short_break |-> short.value,
                       long_break |-> long.value,
                       sessions_until_long_break |-> sessions.value,
                       notification_sound |-> s.settings.notification_sound ]
                 saved ==
                     [ s EXCEPT !.settings = new_settings,
                                !.config_file =
                                    save_settings(s.config_file, new_settings,
                                                  written) ]
                 reset == reset_timer(saved)
             IN  [ reset EXCEPT !.settings_window = FALSE ]

\* The nested save_settings of open_settings, on the entries' text.
\* A ValueError (from int or from the validation loop) shows the error
\* box and leaves everything, the open dialog included, as it was.
open_settings_save_settings(s, form, written) ==
    LET work == int(form.work)
        short == int(form.short)
        long == int(form.long)
        sessions == int(form.sessions)
    IN  IF ~(work.ok /\ short.ok /\ long.ok /\ sessions.ok)
        THEN s
        ELSE IF \/ work.value <= 0
                \/ short.value <= 0
                \/ long.value <= 0
                \/ sessions.value <= 0
        THEN s
        ELSE LET new_settings ==
                     [ work_duration |-> work.value,
                       short_break |-> short.value,
                       long_break |-> long.value,
                       sessions_until_long_break |-> sessions.value,
                       notification_sound |-> s.settings.notification_sound ]
                 saved ==
                     [ s EXCEPT !.settings = new_settings,
                                !.config_file =
                                    save_settings(s.config_file, new_settings,
                                                  written) ]
                 reset == IF ~saved.is_running THEN reset_timer(saved)
                          ELSE saved
             IN  [ reset EXCEPT !.settings_window = FALSE ]

\* browse_sound_file once a file was picked and copied into assets/
browse_sound_file(s) ==
    [ s EXCEPT !.settings.notification_sound = BrowsedSound ]

----------------------------------------------------------------------------
(* Inputs *)

\* Files found at start-up: complete records of valid values.
StoredFiles == { JsonFile(st) : st \in SettingsDomain }

\* Files found at start-up when anybody may have written them: none, an
\* unreadable or a cut-off one, and JSON objects that hold any subset of
\* the five keys with integers of any sign.
StoredRecords ==
    [ work_duration : StoredMinuteChoices,
      short_break : {1},
      long_break : LongMinuteChoices,
      sessions_until_long_break : StoredCountChoices,
      notification_sound : {NoSound} ]

AnyStoredFiles ==
    { MissingFile, UnreadableFile, MalformedFile } \cup
    { JsonFile([ k \in keys |-> st[k] ]) :
          st \in StoredRecords, keys \in SUBSET SettingsKeys }

\* Outcomes of writing the settings file: here the write goes through
\* (save_settings also covers the swallowed failure, written = FALSE).
WriteOutcomes == {TRUE}

FormKeys == {"work", "short", "long", "sessions"}

\* Text that int rejects or that fails the validation loop.
BadTexts == { << "0" >>, << "-", "1" >>, << "x" >>, << >> }

ValidForms ==
    [ work : { str(m) : m \in MinuteChoices },
      short : { str(m) : m \in MinuteChoices },
      long : { << " " >> \o str(m) : m \in LongMinuteChoices },
      sessions : { str(m) : m \in CountChoices } ]

\* create_input_field fills each entry with str(current value)
PrefilledForm(s) ==
    [ work |-> str(s.settings.work_duration),
      short |-> str(s.settings.short_break),
      long |-> str(s.settings.long_break),
      sessions |-> str(s.settings.sessions_until_long_break) ]

\* What the user submits: any valid form, or the prefilled form with one
\* entry replaced by a bad text.
SubmittedForms(s) ==
    ValidForms \cup
    { [ PrefilledForm(s) EXCEPT ![k] = b ] : k \in FormKeys, b \in BadTexts }

\* A call of countdown at time_remaining = 0 completes the session; the
\* model stops at MaxSessions completed Work sessions and MaxThreads
\* notification threads in flight.
WithinBounds(s) ==
    s.time_remaining = 0 =>
        /\ s.sound_threads + s.stop_timers < MaxThreads
        /\ s.current_session = "work" => s.session_count < MaxSessions

----------------------------------------------------------------------------
(* Initial state: PomodoroTimer.__init__ *)

\* handle_first_run: without a stored sound the user is asked for one;
\* picked says that they chose a file and that it was copied.
handle_first_run(s, picked, written) ==
    IF s.settings.notification_sound = "" /\ picked
    THEN LET chosen ==
                 [ s.settings EXCEPT !.notification_sound = FirstRunSound ]
         IN  [ s EXCEPT !.settings = chosen,
                        !.config_file =
                            save_settings(s.config_file, chosen, written) ]
    ELSE s

\* PomodoroTimer(root) on the file found at start-up
new_PomodoroTimer(file, written, picked) ==
    LET loaded == load_settings(file, written)
        asked == handle_first_run(
                     [ settings |-> loaded.settings,
                       config_file |-> loaded.file,
                       current_session |-> "work",
                       session_count |-> 0,
                       time_remaining |-> 0,
                       is_running |-> FALSE,
                       is_paused |-> FALSE,
                       timer_job |-> "None",
                       after_queue |-> 0,
                       pause_btn |-> "disabled",
                       settings_window |-> FALSE,
                       sound_threads |-> 0,
                       stop_timers |-> 0 ],
                     picked, written)
    IN  [ asked EXCEPT !.time_remaining =
                           asked.settings.work_duration * SecondsPerMinute ]

Starts(s) ==
    /\ settings = s.settings
    /\ config_file = s.config_file
    /\ current_session = s.current_session
    /\ session_count = s.session_count
    /\ time_remaining = s.time_remaining
    /\ is_running = s.is_running
    /\ is_paused = s.is_paused
    /\ timer_job = s.timer_job
    /\ after_queue = s.after_queue
    /\ pause_btn = s.pause_btn
    /\ settings_window = s.settings_window
    /\ sound_threads = s.sound_threads
    /\ stop_timers = s.stop_timers

\* The program starts on a stored file of valid values, the write goes
\* through and the user declines the first-run prompt.
Init ==
    \E file \in StoredFiles :
        Starts(new_PomodoroTimer(file, TRUE, FALSE))

\* The program starts on any file.
InitStore ==
    \E file \in AnyStoredFiles, written \in BOOLEAN, picked \in BOOLEAN :
        Starts(new_PomodoroTimer(file, written, picked))

----------------------------------------------------------------------------
(* Events of the Tk main loop *)

\* Start button, Return or space: toggle_timer
ToggleTimer ==
    /\ ~settings_window
    /\ is_paused => WithinBounds(Self)
    /\ Becomes(toggle_timer(Self))

\* Pause button
PauseTimer ==
    /\ ~settings_window
    /\ pause_btn = "normal"
    /\ Becomes(pause_timer(Self))

\* Reset button or Escape
ResetTimer ==
    /\ ~settings_window
    /\ Becomes(reset_timer(Self))

\* A pending after(1000, self.countdown) callback fires: the one whose id
\* timer_job holds, or another one still in the queue.
TimerFires ==
    /\ after_queue > 0
    /\ WithinBounds(Self)
    /\ \E held \in BOOLEAN :
        /\ held => timer_job = "pending"
        /\ ~held => after_queue > (IF timer_job = "pending" THEN 1 ELSE 0)
        /\ Becomes(countdown(
               IF held
               THEN [ Self EXCEPT !.timer_job = "fired",
                                  !.after_queue = @ - 1 ]
               ELSE [ Self EXCEPT !.after_queue = @ - 1 ]))

\* Settings button: the dialog opens and grabs the input
OpenSettings ==
    /\ ~settings_window
    /\ Becomes([ Self EXCEPT !.settings_window = TRUE ])

\* Save Settings button of the dialog
SaveSettings ==
    /\ settings_window
    /\ \E form \in SubmittedForms(Self), written \in WriteOutcomes :
        Becomes(open_settings_save_settings(Self, form, written))

\* Cancel button of the dialog
CancelSettings ==
    /\ settings_window
    /\ Becomes([ Self EXCEPT !.settings_window = FALSE ])

\* Browse... button of the dialog, when a file is picked and copied
BrowseSound ==
    /\ settings_window
    /\ Becomes(browse_sound_file(Self))

\* A thread started by play_notification_sound runs play_sound
PlaySound ==
    /\ sound_threads > 0
    /\ \E playable \in BOOLEAN : Becomes(play_sound(Self, playable))

\* A threading.Timer started by play_sound fires after its 5 seconds:
\* pygame.mixer.music.stop
StopSound ==
    /\ stop_timers > 0
    /\ Becomes(music_stop(Self))

Next ==
    \/ ToggleTimer
    \/ PauseTimer
    \/ ResetTimer
    \/ TimerFires
    \/ OpenSettings
    \/ SaveSettings
    \/ CancelSettings
    \/ BrowseSound
    \/ PlaySound
    \/ StopSound

Spec == Init /\ [][Next]_vars

\* Save Settings button of the dialog, the write going through or not
StoreSaveSettings ==
    /\ settings_window
    /\ \E form \in SubmittedForms(Self), written \in BOOLEAN :
        Becomes(open_settings_save_settings(Self, form, written))

\* The window is closed (on_closing) and main() runs again on the file
\* the last run left behind.
Restart ==
    /\ ~settings_window
    /\ \E written \in BOOLEAN, picked \in BOOLEAN :
        Becomes(new_PomodoroTimer(config_file, written, picked))

\* The settings and their file over several runs of the program, the
\* timer left idle.
NextStore ==
    \/ OpenSettings
    \/ StoreSaveSettings
    \/ CancelSettings
    \/ BrowseSound
    \/ Restart

SpecStore == InitStore /\ [][NextStore]_vars

\* The user presses neither Pause nor Reset and picks no sound file:
\* every notification is the bell.
NextLive ==
    \/ ToggleTimer
    \/ TimerFires
    \/ OpenSettings
    \/ SaveSettings
    \/ CancelSettings
    \/ PlaySound

\* Tk fires a pending after() callback once its delay has passed, and a
\* started thread runs.
Fairness ==
    /\ WF_vars(TimerFires)
    /\ WF_vars(PlaySound)

SpecLive == Init /\ [][NextLive]_vars /\ Fairness

----------------------------------------------------------------------------
(* Vocabulary of the properties *)

\* run_state
Idle == ~is_running /\ ~is_paused

Running == is_running

Paused == is_paused /\ ~is_running

\* The configured duration of a session kind, in seconds
ConfiguredSeconds(st, kind) ==
    CASE kind = "work" -> st.work_duration * SecondsPerMinute
      [] kind = "short_break" -> st.short_break * SecondsPerMinute
      [] kind = "long_break" -> st.long_break * SecondsPerMinute

\* A step in which countdown runs: a callback fires, or toggle_timer
\* starts or resumes.
CountdownStep == TimerFires \/ (ToggleTimer /\ ~is_running)

\* A step in which countdown finds time_remaining = 0 and the session is
\* advanced.
AdvanceStep == CountdownStep /\ time_remaining = 0

----------------------------------------------------------------------------
(* Properties *)

\* C1: whenever a Work session is advanced, session_count grows by exactly
\* 1, the new session is the long break iff the new count is a multiple of
\* sessions_until_long_break and the short break otherwise, and
\* time_remaining is the new session's configured minutes * 60.
C1_WorkAdvance ==
    [][ (AdvanceStep /\ current_session = "work") =>
          /\ session_count' = session_count + 1
          /\ current_session' =
                IF session_count' % settings.sessions_until_long_break = 0
                THEN "long_break" ELSE "short_break"
          /\ time_remaining' = ConfiguredSeconds(settings, current_session')
      ]_vars

\* C1 witness: the second successive Work completion with
\* sessions_until_long_break = 2 has led to the long break.
C1_Witness ==
    /\ current_session = "long_break"
    /\ session_count = 2
    /\ settings.sessions_until_long_break = 2
    /\ Idle
    /\ time_remaining = settings.long_break * SecondsPerMinute

\* C2: advancing from a short or a long break always leads to Work with
\* time_remaining = work_duration * 60 and leaves session_count unchanged.
C2_BreakAdvance ==
    [][ (AdvanceStep /\ current_session \in {"short_break", "long_break"}) =>
          /\ current_session' = "work"
          /\ time_remaining' = settings.work_duration * SecondsPerMinute
          /\ session_count' = session_count
      ]_vars

\* C2 witness: back in Work after a break ran out, the count still 1.
C2_Witness ==
    /\ current_session = "work"
    /\ session_count = 1
    /\ Idle
    /\ timer_job = "fired"
    /\ time_remaining = settings.work_duration * SecondsPerMinute

\* C3: when a run of countdown takes time_remaining from 1 to 0, the same
\* run leaves the timer Idle, has started the notification and has
\* advanced the session.
C3_CompletionOnZeroTick ==
    [][ (CountdownStep /\ time_remaining = 1) =>
          /\ ~is_running'
          /\ ~is_paused'
          /\ sound_threads' = sound_threads + 1
          /\ current_session' # current_session
      ]_vars

\* C4: from every Running state, pause followed at once by resume gives
\* back the time_remaining it started from, and no callback is pending in
\* between.
C4_PauseResumeKeepsTime ==
    (is_running /\ pause_btn = "normal") =>
        LET paused == pause_timer(Self) IN
        /\ paused.time_remaining = time_remaining
        /\ paused.after_queue = 0
        /\ toggle_timer(paused).time_remaining = time_remaining

\* C5: time_remaining is decremented only by a callback that fires after
\* its one-second wait, so the decrements of a session never outnumber
\* the seconds spent Running.
C5_DecrementNeedsElapsedSecond ==
    [][ (CountdownStep /\ time_remaining' = time_remaining - 1) =>
          TimerFires
      ]_vars

\* C6: countdown called while the timer is not Running (Idle or Paused)
\* leaves time_remaining unchanged, also at time_remaining = 0.
C6_TickWhenNotRunning ==
    ~is_running => countdown(Self).time_remaining = time_remaining

\* C7: countdown while Running with time_remaining > 0 decrements it by
\* exactly 1, countdown at time_remaining = 0 decrements nothing, and
\* time_remaining is never negative.
C7_TickFloor ==
    /\ time_remaining >= 0
    /\ (is_running /\ time_remaining > 0) =>
           countdown(Self).time_remaining = time_remaining - 1
    /\ time_remaining = 0 =>
           countdown(Self).time_remaining >= time_remaining

\* C7 witness: the countdown has run down to 0 and the next callback is
\* pending.
C7_Witness ==
    /\ is_running
    /\ time_remaining = 0
    /\ after_queue = 1

\* C8: reset from any run state leaves no callback pending, sets
\* time_remaining to the configured minutes of the current session * 60,
\* leaves the timer Idle and keeps current_session and session_count.
C8_Reset ==
    [][ ResetTimer =>
          /\ after_queue' = 0
          /\ time_remaining' = ConfiguredSeconds(settings', current_session)
          /\ ~is_running'
          /\ ~is_paused'
          /\ current_session' = current_session
          /\ session_count' = session_count
      ]_vars

\* C8 witness: a short break that had been started was reset, under
\* settings whose short break differs from the work duration.
C8_Witness ==
    /\ Idle
    /\ timer_job = "cancelled"
    /\ current_session = "short_break"
    /\ settings.short_break # settings.work_duration
    /\ time_remaining = settings.short_break * SecondsPerMinute

\* C9: at most one countdown callback is pending, and none while the
\* timer is Idle or Paused.
C9_SingleTick ==
    /\ after_queue <= 1
    /\ ~is_running => after_queue = 0

\* C9 witness: a running countdown was paused part-way and its callback
\* cancelled.
C9_Witness ==
    /\ Paused
    /\ timer_job = "cancelled"
    /\ after_queue = 0
    /\ time_remaining < ConfiguredSeconds(settings, current_session)

\* C10: toggle_timer while Running changes nothing and schedules nothing;
\* from Idle it leaves the timer Running; from Paused it leaves the timer
\* Running with its callback pending.
C10_ToggleContract ==
    LET toggled == toggle_timer(Self) IN
    /\ is_running => toggled = Self
    /\ Idle => (toggled.is_running /\ ~toggled.is_paused)
    /\ Paused => /\ toggled.is_running
                 /\ ~toggled.is_paused
                 /\ toggled.after_queue = 1

\* C11: pause from Running leaves the timer Paused with no callback
\* pending and keeps time_remaining, current_session and session_count;
\* a second pause right after the first changes nothing at all.
C11_PauseIdempotent ==
    is_running =>
        LET paused == pause_timer(Self) IN
        /\ paused.is_paused /\ ~paused.is_running
        /\ paused.after_queue = 0
        /\ paused.time_remaining = time_remaining
        /\ paused.current_session = current_session
        /\ paused.session_count = session_count
        /\ pause_timer(paused) = paused

\* C11 witness: a short break was paused, and pausing again would leave
\* the state as it is.
C11_Witness ==
    /\ Paused
    /\ current_session = "short_break"
    /\ timer_job = "cancelled"
    /\ pause_timer(Self) = Self

NumericKeys ==
    { "work_duration", "short_break", "long_break",
      "sessions_until_long_break" }

\* C12: in every state the four numeric settings are greater than 0,
\* whatever the file held at start-up and whatever the dialog submitted.
C12_SettingsPositive ==
    \A k \in NumericKeys : settings[k] > 0

\* load_settings on this file takes a branch that gives up on its content.
LoadFails(file) ==
    ~file.exists \/ ~file.readable \/ ~json_load(file.text).ok

\* C13: a load that fails on the file (missing, unreadable or malformed)
\* returns the defaults and, the write going through, leaves the
\* defaults in the file.
C13_FailedLoadStoresDefaults ==
    LoadFails(config_file) =>
        LET loaded == load_settings(config_file, TRUE) IN
        /\ loaded.settings = default_settings
        /\ loaded.file = JsonFile(default_settings)

\* The keys written in the file
StoredKeys(file) == { file.text[i].key : i \in 1..Len(file.text) }

\* C14: a load of a well-formed file returns a record over the five keys
\* in which every stored key has the value written in the file and
\* exactly the keys the file lacks have their default values.
C14_MergeOnLoad ==
    ~LoadFails(config_file) =>
        LET loaded == load_settings(config_file, TRUE).settings IN
        /\ DOMAIN loaded = SettingsKeys \cup StoredKeys(config_file)
        /\ \A i \in 1..Len(config_file.text) :
               json_dump_value(config_file.text[i].key,
                               loaded[config_file.text[i].key])
                   = config_file.text[i].value
        /\ \A k \in SettingsKeys \ StoredKeys(config_file) :
               loaded[k] = default_settings[k]

\* C14 witness: the program has started on a file that holds
\* work_duration and lacks sessions_until_long_break, and runs with the
\* stored 1 minute and the default 4 sessions.
C14_Witness ==
    /\ ~LoadFails(config_file)
    /\ "work_duration" \in StoredKeys(config_file)
    /\ "sessions_until_long_break" \notin StoredKeys(config_file)
    /\ settings = load_settings(config_file, TRUE).settings
    /\ settings.work_duration = 1
    /\ settings.sessions_until_long_break = 4

\* A settings record the dialog accepts: positive numbers, any sound
ValidSettings(st) == \A k \in NumericKeys : st[k] > 0

\* C15: valid settings written by save_settings, the write going
\* through, are what the next load_settings returns, and that load
\* leaves the file as written.
C15_RoundTrip ==
    ValidSettings(settings) =>
        \A written \in BOOLEAN :
            LET saved == save_settings(config_file, settings, TRUE)
                loaded == load_settings(saved, written)
            IN  loaded.settings = settings /\ loaded.file = saved

\* C15 witness: valid settings with a browsed sound have been saved, and
\* the file holds their text.
C15_Witness ==
    /\ ValidSettings(settings)
    /\ settings.notification_sound = BrowsedSound
    /\ ~settings_window
    /\ config_file = save_settings(config_file, settings, TRUE)
    /\ load_settings(config_file, TRUE).settings = settings

\* The Save button was pressed and the dialog closed: the entries were
\* accepted.
AcceptedSave == settings_window /\ ~settings_window' /\ SaveSettings

\* The timer as the main window shows it
TimerState ==
    << current_session, session_count, time_remaining, is_running,
       is_paused >>

\* C16: while the dialog is open, only a Save that is accepted (and
\* closes the dialog) changes the settings in memory or the file: Browse,
\* Cancel and a rejected Save leave all five fields and the file alone,
\* Cancel and a rejected Save leave the timer alone, and a rejected Save
\* leaves the dialog open.
C16_CommitOnlyBySave ==
    [][ settings_window =>
          /\ ~AcceptedSave =>
                 settings' = settings /\ config_file' = config_file
          /\ CancelSettings => TimerState' = TimerState
          /\ (settings_window' /\ SaveSettings) =>
                 TimerState' = TimerState
      ]_vars

\* What a skip would leave behind: the session that next_session
\* computes, Idle, no callback pending and no new notification thread.
SkipStep ==
    /\ current_session' = next_session(Self).current_session
    /\ session_count' = next_session(Self).session_count
    /\ time_remaining' = next_session(Self).time_remaining
    /\ ~is_running' /\ ~is_paused'
    /\ timer_job' # "pending"
    /\ sound_threads' = sound_threads

\* C17: in every state with time left on the clock some operation of the
\* program skips the session: it advances as a completion would, leaves
\* the timer Idle without a pending callback and plays no sound.
C17_SkipOffered ==
    time_remaining > 0 => ENABLED (Next /\ SkipStep)

\* C19: a step that closes the dialog other than by Cancel is an
\* accepted Save. It resets the current session when the timer is not
\* running (time_remaining becomes the new configured duration of the
\* same session, Idle, no callback held, count kept); when the timer is
\* running it leaves time_remaining, the session, the count and the
\* pending callback as they are and the timer keeps running.
C19_CommitResets ==
    [][ (settings_window /\ ~settings_window' /\ ~CancelSettings) =>
          /\ current_session' = current_session
          /\ session_count' = session_count
          /\ IF ~is_running
             THEN /\ time_remaining' =
                         ConfiguredSeconds(settings', current_session)
                  /\ ~is_running' /\ ~is_paused'
                  /\ timer_job' # "pending"
                  /\ after_queue' = 0
             ELSE /\ time_remaining' = time_remaining
                  /\ is_running' /\ ~is_paused'
                  /\ timer_job' = timer_job
                  /\ after_queue' = after_queue
      ]_vars

\* C19 witness: the durations were shortened while the timer was
\* running, and it still counts down from the old duration: more time
\* is left than the session now lasts.
C19_Witness ==
    /\ Running
    /\ ~settings_window
    /\ time_remaining > ConfiguredSeconds(settings, current_session)

\* C20: the run of countdown that completes a session leaves the timer
\* Idle; an Idle timer has no callback pending and shows the full
\* configured duration of its session; and only toggle_timer (Start,
\* Return or space) takes the timer out of Idle.
C20_NoAutoStart ==
    /\ [](Idle => /\ after_queue = 0
                  /\ timer_job # "pending"
                  /\ time_remaining =
                         ConfiguredSeconds(settings, current_session))
    /\ [][ /\ AdvanceStep => Idle'
           /\ (Idle /\ ~Idle') => ToggleTimer
       ]_vars

\* C20 witness: a break has run out and its sound has been played; the
\* Work session that follows waits at its full duration, nothing pending.
C20_Witness ==
    /\ Idle
    /\ current_session = "work"
    /\ session_count = 2
    /\ timer_job = "fired"
    /\ after_queue = 0
    /\ sound_threads = 0
    /\ time_remaining = ConfiguredSeconds(settings, current_session)

\* A notification is in flight: its thread has not run yet, or its music
\* plays and the timer that stops it has not fired.
InFlight == sound_threads + stop_timers > 0

\* C18: Start, Pause, Resume and Reset leave every notification in
\* flight as it is, and a stop timer goes away only by firing, which it
\* can always do; the thread and the stop timer change nothing of the
\* timer (session, count, time, flags, pending callback), and a pending
\* callback of a session with time left can fire whatever is in flight.
C18_NotificationDecoupled ==
    /\ [](stop_timers > 0 => ENABLED StopSound)
    /\ []((InFlight /\ after_queue > 0 /\ time_remaining > 0) =>
              ENABLED TimerFires)
    /\ [][ /\ (ToggleTimer \/ PauseTimer \/ ResetTimer) =>
                  /\ sound_threads' >= sound_threads
                  /\ stop_timers' = stop_timers
           /\ stop_timers' < stop_timers => StopSound
           /\ sound_threads' < sound_threads => PlaySound
           /\ (PlaySound \/ StopSound) =>
                  /\ TimerState' = TimerState
                  /\ timer_job' = timer_job
                  /\ after_queue' = after_queue
                  /\ pause_btn' = pause_btn
       ]_vars

\* C18 witness: the next session was started and paused while the sound
\* of the last completion was still to be stopped.
C18_Witness ==
    /\ Paused
    /\ timer_job = "cancelled"
    /\ stop_timers = 1
    /\ session_count = 1
    /\ time_remaining < ConfiguredSeconds(settings, current_session)

\* C22: is_running and is_paused are never both true, so the timer is
\* Idle, Running or Paused and nothing else; and a step that enters
\* Paused is a press of Pause on a running timer.
C22_RunStateWellDefined ==
    /\ [](~(is_running /\ is_paused))
    /\ [][ (~Paused /\ Paused') => (Running /\ PauseTimer) ]_vars

\* C22 witness: a long break was started and is paused, two seconds
\* short of its full duration.
C22_Witness ==
    /\ Paused
    /\ current_session = "long_break"
    /\ pause_btn = "disabled"
    /\ time_remaining =
           ConfiguredSeconds(settings, current_session) - 2

WithinConfigured ==
    time_remaining <= ConfiguredSeconds(settings, current_session)

CommitWhileRunning ==
    is_running /\ settings_window /\ ~settings_window' /\ ~CancelSettings

Completable ==
    current_session = "work" => session_count < MaxSessions

====
